---- MODULE Spec2Model ----
(***************************************************************************)
(* Model of the chaincode contract AssetTransfer (lib/assetTransfer.js).   *)
(*                                                                         *)
(* The world state is a key-value store of byte strings, the clock is the  *)
(* wall clock read through moment(), and every transaction function of the *)
(* contract is one action.  A JavaScript object is a sequence of           *)
(* <<field, value>> pairs in insertion order, so that the two encoders the *)
(* contract uses (JSON.stringify, and stringify(sortKeysRecursive(..)))    *)
(* are distinguishable.                                                    *)
(***************************************************************************)
EXTENDS Integers, Sequences, FiniteSets, TLC

VARIABLES store, now, tx

vars == <<store, now, tx>>

(***************************************************************************)
(* Bounds of the model.                                                    *)
(***************************************************************************)
\* The clock stops advancing at MaxTime seconds.
MaxTime == 660

\* The clock advances between transactions by nine, ten or eleven minutes.
TickSteps == {540, 600, 660}

\* The keys of the world state the transactions address.
Keys == {"a1", "g1"}

\* The requesters of checkAccess.
Clients == {"c1", "c2"}

(***************************************************************************)
(* JSON values.  Every value is a JSON string; the two renderings of a     *)
(* moment are kept apart from ordinary strings by their tag, n being the   *)
(* instant (seconds) the rendering denotes.                                *)
(***************************************************************************)
Str(x) == [tag |-> "str", s |-> x, n |-> 0]

\* moment().format("DD/MM/YYYY HH:mm:ss")
FormatDMY(m) == [tag |-> "dmy", s |-> "", n |-> m]

\* moment().format('X'): epoch seconds, as a string
FormatX(m) == [tag |-> "epoch", s |-> "", n |-> m]

\* A nested mapping: a value that is itself an object.
Obj(o) == [tag |-> "obj", s |-> "", n |-> 0, o |-> o]

\* moment().add(k, "minute")
AddMinutes(m, k) == m + k * 60

\* the validity window of createPaymentBlock, in minutes
GrantMinutes == 10

(***************************************************************************)
(* JavaScript objects: sequences of <<field, value>> with distinct fields. *)
(***************************************************************************)
Fields(o) == {o[i][1] : i \in DOMAIN o}

\* Object.prototype.hasOwnProperty
Has(o, f) == f \in Fields(o)

\* o[f], for a field the object has
Get(o, f) == o[CHOOSE i \in DOMAIN o : o[i][1] = f][2]

\* o[f] = v: an existing field keeps its position, a new one is appended
Put(o, f, v) ==
    IF Has(o, f)
    THEN [i \in DOMAIN o |-> IF o[i][1] = f THEN <<f, v>> ELSE o[i]]
    ELSE Append(o, <<f, v>>)

\* The rank of a field name in the code-unit order of Array.prototype.sort.
FieldRank(f) ==
    CASE f = "created_at"     -> 1
      [] f = "docType"        -> 2
      [] f = "expires_at"     -> 3
      [] f = "extra"          -> 4
      [] f = "first_name"     -> 5
      [] f = "id"             -> 6
      [] f = "metaMask_token" -> 7
      [] f = "name"           -> 8
      [] f = "payeer_id"      -> 9
      [] f = "resume_id"      -> 10

\* A sort of the top-level keys alone, nested mappings left as they are.
sortKeysShallow(o) ==
    SortSeq(o, LAMBDA a, b : FieldRank(a[1]) < FieldRank(b[1]))

\* sortKeysRecursive(o): a new object with the keys in sorted order, the keys
\* of every nested mapping sorted too
RECURSIVE sortKeysRecursive(_)
sortKeysRecursive(o) ==
    SortSeq([i \in DOMAIN o |->
                IF o[i][2].tag = "obj"
                THEN <<o[i][1], Obj(sortKeysRecursive(o[i][2].o))>>
                ELSE o[i]],
            LAMBDA a, b : FieldRank(a[1]) < FieldRank(b[1]))

\* JSON.stringify(o): the text of o, keys in insertion order
JSONstringify(o) == <<o>>

\* Buffer.from(stringify(sortKeysRecursive(o))): the bytes written to the store
Encode(o) == <<sortKeysRecursive(o)>>

\* JSON.parse(text)
JSONparse(text) == text[1]

\* A zero-length buffer: what getState returns for a key never written.
NoBytes == <<>>

(***************************************************************************)
(* The world state (ctx.stub).                                             *)
(***************************************************************************)
\* ctx.stub.getState(key)
getState(key) == IF key \in DOMAIN store THEN store[key] ELSE NoBytes

\* ctx.stub.putState(key, bytes), on a store st
putState(st, key, bytes) == [st EXCEPT ![key] = bytes]

\* AssetExists with its test inverted.
AssetExistsInverted(id) == Len(getState(id)) = 0

\* AssetExists(id): assetJSON && assetJSON.length > 0
AssetExists(id) == Len(getState(id)) > 0

(***************************************************************************)
(* The outcome of a transaction: the function called, its arguments, the   *)
(* error it threw ("" when it returned) and the text it returned.          *)
(***************************************************************************)
Outcome(op, id, client, arg, err, val) ==
    [op |-> op, id |-> id, client |-> client, arg |-> arg, err |-> err, val |-> val]

NoTx == Outcome("", "", "", <<>>, "", <<>>)

\* `The asset ${id} already exists`
AlreadyExists == "already exists"

\* `The asset ${id} does not exist`
DoesNotExist == "does not exist"

(***************************************************************************)
(* Inputs of the transactions.                                             *)
(***************************************************************************)
CreateInputs ==
    { << <<"id", Str("a1")>>, <<"name", Str("X")>>, <<"docType", Str("asset")>> >>,
      << <<"name", Str("X")>>, <<"id", Str("a1")>> >>,
      << <<"id", Str("g1")>>, <<"docType", Str("asset")>>, <<"name", Str("X")>> >> }

InitInputs ==
    { << << <<"id", Str("a1")>>, <<"name", Str("X")>> >> >>,
      << << <<"name", Str("X")>>, <<"id", Str("a1")>> >>,
         << <<"id", Str("g1")>>, <<"docType", Str("paymentDetails")>> >> >>,
      << << <<"id", Str("a1")>>, <<"name", Str("X")>> >>,
         << <<"id", Str("a1")>>, <<"name", Str("Y")>> >> >> }

PaymentInputs ==
    { << <<"id", Str("g1")>>, <<"payeer_id", Str("c1")>>, <<"resume_id", Str("a1")>>,
         <<"docType", Str("paymentDetails")>> >>,
      << <<"id", Str("g1")>>, <<"payeer_id", Str("c1")>>, <<"resume_id", Str("a1")>> >>,
      << <<"id", Str("a1")>>, <<"resume_id", Str("a1")>>, <<"payeer_id", Str("c2")>>,
         <<"expires_at", Str("never")>>, <<"docType", Str("paymentDetails")>> >> }

UpdateInputs ==
    { << <<"name", Str("Y")>>, <<"extra", Str("Z")>> >>,
      << <<"docType", Str("paymentDetails")>> >>,
      << <<"id", Str("g1")>> >>,
      << <<"expires_at", FormatX(0)>> >>,
      << <<"expires_at", FormatX(6000)>> >> }

(***************************************************************************)
(* Init: an empty world state, the clock at its origin, nothing called.    *)
(***************************************************************************)
Init ==
    /\ store = [k \in Keys |-> NoBytes]
    /\ now = 0
    /\ tx = NoTx

\* Time passes between two transactions.  The clock counts whole seconds, the
\* resolution of both renderings, and one transaction reads it at one instant.
Tick ==
    \E d \in TickSteps :
        /\ now + d <= MaxTime
        /\ now' = now + d
        /\ tx' = NoTx
        /\ UNCHANGED store

(***************************************************************************)
(* InitLedger(assets): every asset of the batch is stamped and written,    *)
(* in order, with no existence check.                                      *)
(***************************************************************************)
\* The stamps of InitLedger without the docType.
StampAssetNoDocType(asset) == Put(asset, "created_at", FormatDMY(now))

\* lines 22-23: asset.docType = 'asset'; asset.created_at = moment().format(..)
StampAsset(asset) ==
    Put(Put(asset, "docType", Str("asset")), "created_at", FormatDMY(now))

RECURSIVE InitLedgerStore(_, _)
InitLedgerStore(st, assets) ==
    IF assets = <<>>
    THEN st
    ELSE LET asset == StampAsset(Head(assets))
         IN  InitLedgerStore(putState(st, Get(asset, "id").s, Encode(asset)),
                             Tail(assets))

InitLedgerCall(assets) ==
    /\ store' = InitLedgerStore(store, assets)
    /\ tx' = Outcome("InitLedger", "", "", assets, "", <<>>)
    /\ UNCHANGED now

InitLedger == \E assets \in InitInputs : InitLedgerCall(assets)

(***************************************************************************)
(* CreateAsset(asset)                                                      *)
(***************************************************************************)
CreateAssetCall(new_asset) ==
    LET id == Get(new_asset, "id").s
    IN  /\ IF AssetExists(id)
           THEN /\ tx' = Outcome("CreateAsset", id, "", <<new_asset>>,
                                 AlreadyExists, <<>>)
                /\ UNCHANGED store
           ELSE /\ store' = putState(store, id, Encode(new_asset))
                /\ tx' = Outcome("CreateAsset", id, "", <<new_asset>>,
                                 "", JSONstringify(new_asset))
        /\ UNCHANGED now

CreateAsset == \E new_asset \in CreateInputs : CreateAssetCall(new_asset)

(***************************************************************************)
(* ReadAsset(id): the error thrown ("" when none) and the text returned.   *)
(***************************************************************************)
\* ReadAsset without its test for an empty value.
ReadAssetUnchecked(id) == [err |-> "", val |-> getState(id)]

ReadAssetOf(id) ==
    LET assetJSON == getState(id)
    IN  IF Len(assetJSON) = 0
        THEN [err |-> DoesNotExist, val |-> <<>>]
        ELSE [err |-> "", val |-> assetJSON]

ReadAsset ==
    \E id \in Keys :
        /\ tx' = Outcome("ReadAsset", id, "", <<>>,
                         ReadAssetOf(id).err, ReadAssetOf(id).val)
        /\ UNCHANGED <<store, now>>

(***************************************************************************)
(* updateAsset(id, updatedData)                                            *)
(***************************************************************************)
\* A merge that also takes the fields only the update has.
RECURSIVE MergeAll(_, _)
MergeAll(getAsset, updatedAsset) ==
    IF updatedAsset = <<>>
    THEN getAsset
    ELSE MergeAll(Put(getAsset, Head(updatedAsset)[1], Head(updatedAsset)[2]),
                  Tail(updatedAsset))

\* lines 228-236: each field of the stored asset that the update also has
\* takes the update's value
Merge(getAsset, updatedAsset) ==
    [i \in DOMAIN getAsset |->
        IF Has(updatedAsset, getAsset[i][1])
        THEN <<getAsset[i][1], Get(updatedAsset, getAsset[i][1])>>
        ELSE getAsset[i]]

updateAssetCall(id, updatedAsset) ==
    /\ IF ~AssetExists(id)
       THEN /\ tx' = Outcome("updateAsset", id, "", <<updatedAsset>>,
                             DoesNotExist, <<>>)
            /\ UNCHANGED store
       ELSE IF ReadAssetOf(id).err # ""
       THEN /\ tx' = Outcome("updateAsset", id, "", <<updatedAsset>>,
                             ReadAssetOf(id).err, <<>>)
            /\ UNCHANGED store
       ELSE LET getAsset == Merge(JSONparse(ReadAssetOf(id).val), updatedAsset)
            IN  /\ store' = putState(store, id, Encode(getAsset))
                /\ tx' = Outcome("updateAsset", id, "", <<updatedAsset>>,
                                 "", JSONstringify(getAsset))
    /\ UNCHANGED now

updateAsset ==
    \E id \in Keys, updatedAsset \in UpdateInputs : updateAssetCall(id, updatedAsset)

(***************************************************************************)
(* createPaymentBlock(paymentDetails)                                      *)
(***************************************************************************)
\* lines 176-177: the two stamps
StampPayment(data) ==
    Put(Put(data, "created_at", FormatDMY(now)),
        "expires_at", FormatX(AddMinutes(now, GrantMinutes)))

createPaymentBlockCall(paymentDetails) ==
    LET data == StampPayment(paymentDetails)
        id   == Get(data, "id").s
    IN  /\ store' = putState(store, id, Encode(data))
        /\ tx' = Outcome("createPaymentBlock", id, "", <<paymentDetails>>,
                         "", JSONstringify(data))
        /\ UNCHANGED now

createPaymentBlock ==
    \E paymentDetails \in PaymentInputs : createPaymentBlockCall(paymentDetails)

(***************************************************************************)
(* checkAccess(clientId, resumeId)                                         *)
(***************************************************************************)
\* "$gt" against an epoch rendering b, in the store's collation of strings:
\* epoch renderings of one width order as their numbers, and a string of
\* letters sorts after any string of digits.
Gt(a, b) ==
    CASE a.tag = "epoch" /\ b.tag = "epoch" -> a.n > b.n
      [] a.tag = "str"   /\ b.tag = "epoch" -> TRUE

\* One condition <<field, operator, value>> of a selector, on a record.
Holds(record, cond) ==
    /\ Has(record, cond[1])
    /\ IF cond[2] = "$gt"
       THEN Gt(Get(record, cond[1]), cond[3])
       ELSE Get(record, cond[1]) = cond[3]

\* ctx.stub.getQueryResult: the keys of the records a selector matches.
getQueryResult(selector) ==
    {k \in DOMAIN store :
        /\ Len(store[k]) > 0
        /\ \A i \in DOMAIN selector : Holds(JSONparse(store[k]), selector[i])}

\* The selector of checkAccess without its docType condition.
AccessSelectorAnyDocType(clientId, resumeId) ==
    << <<"payeer_id", "$eq", Str(clientId)>>,
       <<"resume_id", "$eq", Str(resumeId)>>,
       <<"expires_at", "$gt", FormatX(now)>> >>

\* The selector of checkAccess without its resume_id condition.
AccessSelectorAnyResume(clientId, resumeId) ==
    << <<"payeer_id", "$eq", Str(clientId)>>,
       <<"docType", "$eq", Str("paymentDetails")>>,
       <<"expires_at", "$gt", FormatX(now)>> >>

\* lines 183-192
AccessSelector(clientId, resumeId) ==
    << <<"payeer_id", "$eq", Str(clientId)>>,
       <<"resume_id", "$eq", Str(resumeId)>>,
       <<"docType", "$eq", Str("paymentDetails")>>,
       <<"expires_at", "$gt", FormatX(now)>> >>

\* JSON.stringify({})
EmptyResult == JSONstringify(<<>>)

\* The outcome of checkAccess: the iterator of line 194 is obtained once and
\* no path of the function closes it.
AccessOutcome(clientId, resumeId, err, val) ==
    [op |-> "checkAccess", id |-> resumeId, client |-> clientId, arg |-> <<>>,
     err |-> err, val |-> val, opened |-> 1, closed |-> 0]

\* lines 211-214: ReadAsset(ctx, allResults[0].resume_id), for the entry the
\* iterator yielded first
AccessResult(first) ==
    ReadAssetOf(Get(JSONparse(store[first]), "resume_id").s)

checkAccessCall(clientId, resumeId) ==
    LET matches == getQueryResult(AccessSelector(clientId, resumeId))
    IN  /\ IF matches = {}
           THEN tx' = AccessOutcome(clientId, resumeId, "", EmptyResult)
           ELSE \E first \in matches :
                    tx' = AccessOutcome(clientId, resumeId,
                                        AccessResult(first).err,
                                        AccessResult(first).val)
        /\ UNCHANGED <<store, now>>

checkAccess ==
    \E clientId \in Clients, resumeId \in Keys : checkAccessCall(clientId, resumeId)

Next ==
    \/ Tick
    \/ InitLedger
    \/ CreateAsset
    \/ ReadAsset
    \/ updateAsset
    \/ createPaymentBlock
    \/ checkAccess

Spec == Init /\ [][Next]_vars

\* The grant service alone: createPaymentBlock and updateAsset calls.
NextGrants ==
    \/ Tick
    \/ createPaymentBlock
    \/ updateAsset

SpecGrants == Init /\ [][NextGrants]_vars

(***************************************************************************)
(* Rich queries.  A query is a selector (an object: every field an         *)
(* equality condition) and a projection (a set of field names, empty when  *)
(* the query string has no "fields").  The store yields the entries in an  *)
(* order of its own.                                                       *)
(***************************************************************************)
\* Bytes that are no JSON text.  What the store does with a value it cannot
\* read as a document is the store's business: the model lets a query yield
\* it, the case the fallback of lines 92-97 is written for.
NotJSON(x) == << << <<"#raw", Str(x)>> >> >>

\* Whether JSON.parse accepts the text.
Parseable(text) == ~Has(text[1], "#raw")

\* The conditions of a selector object.
Conditions(selector) ==
    [i \in DOMAIN selector |-> <<selector[i][1], "$eq", selector[i][2]>>]

Query(selector, fields) == [selector |-> selector, fields |-> fields]

\* The keys of the entries a query yields.
QueryKeys(query) ==
    {k \in DOMAIN store :
        /\ Len(store[k]) > 0
        /\ Parseable(store[k])
             => \A i \in DOMAIN query.selector :
                    Holds(JSONparse(store[k]), Conditions(query.selector)[i])}

\* The value of the entry yielded for key k: the document, cut down to the
\* projection when there is one.
EntryValue(k, query) ==
    IF Parseable(store[k]) /\ query.fields # {}
    THEN << SelectSeq(JSONparse(store[k]), LAMBDA p : p[1] \in query.fields) >>
    ELSE store[k]

\* The orders in which an iterator may yield a set of keys.
Orders(S) ==
    {f \in [1..Cardinality(S) -> S] :
        \A i, j \in 1..Cardinality(S) : i # j => f[i] # f[j]}

\* The entries an iterator yields, for one order of the keys.
Entries(order, query) == [i \in DOMAIN order |-> EntryValue(order[i], query)]

\* One element of allResults: a decoded record, or the raw text.
Decoded(record) == [kind |-> "record", record |-> record, text |-> <<>>]
RawText(strValue) == [kind |-> "string", record |-> <<>>, text |-> strValue]

\* line 90: Buffer.from(value.toString()).toString('utf8').  Bytes that are
\* no UTF-8 decode to the replacement character; any other value decodes to
\* its own text.
toString(bytes) ==
    IF bytes = NotJSON("0xFF") THEN NotJSON("U+FFFD") ELSE bytes

\* lines 91-97: JSON.parse(strValue), the text itself when that throws
TryParse(strValue) ==
    IF Parseable(strValue) THEN Decoded(JSONparse(strValue)) ELSE RawText(strValue)

\* A loop that leaves out the entries it cannot parse.
CollectParseable(entries) ==
    LET kept == SelectSeq(entries, Parseable)
    IN  [i \in DOMAIN kept |-> Decoded(JSONparse(kept[i]))]

\* lines 87-100: the loop over the iterator, one element pushed per entry
Collect(entries) == [i \in DOMAIN entries |-> TryParse(toString(entries[i]))]

\* The outcome of a query transaction: val is the array returned; yielded is
\* what the iterator gave; opened and closed count the iterators obtained
\* and the calls of close().
QueryOutcome(op, arg, yielded, val, opened, closed) ==
    [op |-> op, id |-> "", client |-> "", arg |-> arg, err |-> "", val |-> val,
     yielded |-> yielded, opened |-> opened, closed |-> closed]

\* lines 67-81, as a set
AllAssetsFields ==
    {"id", "candidate_name", "created_at", "current_company", "current_ctc",
     "docType", "education", "first_name", "last_name", "owner", "resume_id",
     "technologies", "metaMask_token"}

\* lines 63-82
AllAssetsQuery == Query(<< <<"docType", Str("asset")>> >>, AllAssetsFields)

\* The unpaginated query of a transaction: the iterator is read to its end
\* and never closed (lines 86-101).
RunQuery(op, arg, query) ==
    \E order \in Orders(QueryKeys(query)) :
        /\ tx' = QueryOutcome(op, arg, Entries(order, query),
                              Collect(Entries(order, query)), 1, 0)
        /\ UNCHANGED <<store, now>>

GetAllAssets == RunQuery("GetAllAssets", <<>>, AllAssetsQuery)

\* lines 250-266, as a set
SearchFields == AllAssetsFields \cup {"gender", "experience"}

\* A selector in which the caller's docType, when there is one, wins.
SearchSelectorCallerWins(queryData) ==
    IF Has(queryData, "docType")
    THEN queryData
    ELSE Append(queryData, <<"docType", Str("asset")>>)

\* lines 246-249: {...queryData, docType: "asset"}
SearchSelector(queryData) == Put(queryData, "docType", Str("asset"))

searchAssetCall(queryData) ==
    RunQuery("searchAsset", <<queryData>>,
             Query(SearchSelector(queryData), SearchFields))

\* lines 294-312, as a set
ProfileFields == SearchFields \cup {"email", "phone"}

\* lines 289-313
ProfileQuery(walletId) ==
    Query(<< <<"metaMask_token", Str(walletId)>>, <<"docType", Str("asset")>> >>,
          ProfileFields)

getProfileByWalletIdCall(walletId) ==
    RunQuery("getProfileByWalletId", << << <<"metaMask_token", Str(walletId)>> >> >>,
             ProfileQuery(walletId))

(***************************************************************************)
(* The asset service alone: assets are created, updated and listed.        *)
(***************************************************************************)
AssetInputs ==
    { << <<"id", Str("a1")>>, <<"name", Str("X")>>, <<"docType", Str("asset")>> >>,
      << <<"name", Str("X")>>, <<"id", Str("a1")>> >>,
      << <<"id", Str("g1")>>, <<"docType", Str("paymentDetails")>>,
         <<"metaMask_token", Str("w1")>> >>,
      << <<"metaMask_token", Str("w1")>>, <<"id", Str("g1")>>,
         <<"extra", Obj(<< <<"name", Str("Y")>>, <<"first_name", Str("Ann")>> >>)>>,
         <<"docType", Str("asset")>> >> }

AssetBatches ==
    { << << <<"id", Str("a1")>>, <<"first_name", Str("Ann")>> >> >>,
      << << <<"metaMask_token", Str("w1")>>, <<"id", Str("g1")>> >>,
         << <<"id", Str("a1")>>, <<"docType", Str("paymentDetails")>> >> >> }

AssetUpdates ==
    { << <<"name", Str("Y")>>, <<"extra", Str("Z")>> >>,
      << <<"docType", Str("paymentDetails")>> >>,
      << <<"extra", Obj(<< <<"name", Str("Y")>>, <<"first_name", Str("Ann")>> >>)>> >> }

SearchInputs ==
    { <<>>,
      << <<"docType", Str("paymentDetails")>> >>,
      << <<"name", Str("X")>> >>,
      << <<"docType", Str("paymentDetails")>>, <<"metaMask_token", Str("w1")>> >> }

Wallets == {"w1", "w2"}

AssetsInitLedger == \E assets \in AssetBatches : InitLedgerCall(assets)

AssetsCreate == \E new_asset \in AssetInputs : CreateAssetCall(new_asset)

AssetsUpdate ==
    \E id \in Keys, updatedAsset \in AssetUpdates : updateAssetCall(id, updatedAsset)

searchAsset == \E queryData \in SearchInputs : searchAssetCall(queryData)

getProfileByWalletId == \E walletId \in Wallets : getProfileByWalletIdCall(walletId)

NextAssets ==
    \/ AssetsInitLedger
    \/ AssetsCreate
    \/ AssetsUpdate
    \/ GetAllAssets
    \/ searchAsset
    \/ getProfileByWalletId

SpecAssets == Init /\ [][NextAssets]_vars

(***************************************************************************)
(* QueryAssetsWithPagination(queryString, pageSize, bookmark).  The store  *)
(* keeps the matching entries in the order of their keys; a page is the    *)
(* first pageSize of them after the bookmark, and the bookmark returned is *)
(* the key of the last entry of the page.                                  *)
(***************************************************************************)
\* The longest chain of pages followed.
MaxPages == 4

\* The keys of the stores that are queried.
QueryKeySet == {"a1", "a2", "a3"}

\* The rank of a key in the store's order of keys.
KeyRank(k) ==
    CASE k = "a1" -> 1
      [] k = "a2" -> 2
      [] k = "a3" -> 3

\* The matching keys after the bookmark, in the store's order.
KeysAfter(query, bookmark) ==
    LET after == {k \in QueryKeys(query) :
                    bookmark = "" \/ KeyRank(k) > KeyRank(bookmark)}
    IN  CHOOSE order \in Orders(after) :
            \A i, j \in DOMAIN order : i < j => KeyRank(order[i]) < KeyRank(order[j])

\* ctx.stub.getQueryResultWithPagination: the keys of the page and the
\* metadata of the response.
getQueryResultWithPagination(query, pageSize, bookmark) ==
    LET rest == KeysAfter(query, bookmark)
        page == SubSeq(rest, 1, IF Len(rest) < pageSize THEN Len(rest) ELSE pageSize)
    IN  [keys     |-> page,
         metadata |-> [fetchedRecordsCount |-> Len(page),
                       bookmark |-> IF page = <<>> THEN bookmark
                                                  ELSE page[Len(page)]]]

\* lines 157-171: the same loop as in GetAllAssets
GetAllResults(entries) == Collect(entries)

\* Response metadata that returns no bookmark.
ResponseMetadataNoBookmark(metadata) ==
    [RecordsCount |-> metadata.fetchedRecordsCount, Bookmark |-> ""]

\* lines 114-117
ResponseMetadata(metadata) ==
    [RecordsCount |-> metadata.fetchedRecordsCount, Bookmark |-> metadata.bookmark]

\* Whether a call follows the last one as the next page of its chain: the
\* same query and page size, and the bookmark that call returned.
Continues(query, pageSize, bookmark) ==
    /\ tx.op = "QueryAssetsWithPagination"
    /\ tx.pages # <<>>
    /\ tx.arg[1] = query
    /\ tx.arg[2] = pageSize
    /\ tx.val.ResponseMetadata.Bookmark = bookmark

\* The pages of the chain a call belongs to, this call's page the last: the
\* keys yielded and the results returned.  A call with a bookmark that
\* follows no chain has none.
PagesOf(query, pageSize, bookmark, page) ==
    IF Continues(query, pageSize, bookmark) THEN Append(tx.pages, page)
    ELSE IF bookmark = "" THEN <<page>>
    ELSE <<>>

\* lines 107-120; _GetAllResults closes the iterator twice (line 170).
QueryAssetsWithPaginationCall(query, pageSize, bookmark) ==
    LET r       == getQueryResultWithPagination(query, pageSize, bookmark)
        entries == Entries(r.keys, query)
        results == [results          |-> GetAllResults(entries),
                    ResponseMetadata |-> ResponseMetadata(r.metadata)]
    IN  /\ Continues(query, pageSize, bookmark) => Len(tx.pages) < MaxPages
        /\ tx' = [op |-> "QueryAssetsWithPagination", id |-> "", client |-> "",
                  arg |-> <<query, pageSize, bookmark>>, err |-> "",
                  val |-> results, yielded |-> entries, opened |-> 1, closed |-> 2,
                  pages |-> PagesOf(query, pageSize, bookmark,
                                    [keys |-> r.keys, results |-> results.results])]
        /\ UNCHANGED <<store, now>>

(***************************************************************************)
(* The query service alone, over a world state written beforehand.         *)
(***************************************************************************)
\* What a key of the queried store may hold: nothing, an asset, an asset
\* with a wallet, a payment record, or bytes that are no JSON text.
QueryValues(k) ==
    { NoBytes,
      Encode(<< <<"id", Str(k)>>, <<"name", Str("X")>>, <<"docType", Str("asset")>> >>),
      Encode(<< <<"id", Str(k)>>, <<"name", Str("Y")>>, <<"docType", Str("asset")>>,
                <<"metaMask_token", Str("w1")>> >>),
      Encode(<< <<"id", Str(k)>>, <<"name", Str("X")>>,
                <<"docType", Str("paymentDetails")>> >>),
      NotJSON("oops"),
      NotJSON("0xFF") }

QueryStores == {st \in [QueryKeySet -> UNION {QueryValues(k) : k \in QueryKeySet}] :
                    \A k \in QueryKeySet : st[k] \in QueryValues(k)}

PageQueries ==
    { AllAssetsQuery,
      Query(<< <<"name", Str("X")>> >>, {}),
      Query(<<>>, {"id", "name"}) }

PageSizes == {1, 2}

InitQuery ==
    /\ store \in QueryStores
    /\ now = 0
    /\ tx = NoTx

QueryAssetsWithPagination ==
    \E query \in PageQueries, pageSize \in PageSizes,
       bookmark \in {""} \cup DOMAIN store :
        QueryAssetsWithPaginationCall(query, pageSize, bookmark)

NextQuery ==
    \/ GetAllAssets
    \/ searchAsset
    \/ getProfileByWalletId
    \/ QueryAssetsWithPagination

SpecQuery == InitQuery /\ [][NextQuery]_vars

(***************************************************************************)
(* The writers alone: the four transactions that encode a record and put   *)
(* it in the world state.                                                  *)
(***************************************************************************)
EncodePayments ==
    { << <<"resume_id", Str("a1")>>, <<"payeer_id", Str("c1")>>, <<"id", Str("g1")>>,
         <<"extra", Obj(<< <<"name", Str("Y")>>, <<"first_name", Str("Ann")>> >>)>> >>,
      << <<"id", Str("a1")>>, <<"expires_at", Str("never")>>,
         <<"docType", Str("paymentDetails")>> >> }

EncodeCreatePayment ==
    \E paymentDetails \in EncodePayments : createPaymentBlockCall(paymentDetails)

NextEncode ==
    \/ AssetsInitLedger
    \/ AssetsCreate
    \/ AssetsUpdate
    \/ EncodeCreatePayment

SpecEncode == Init /\ [][NextEncode]_vars

(***************************************************************************)
(* The access service alone: resources are created, grants are created and *)
(* updated, time passes and access is checked.  Two grants may name the    *)
(* same requester and resource.                                            *)
(***************************************************************************)
AccessKeys == {"a1", "a2", "g1", "g2"}

AccessAssets ==
    { << <<"id", Str("a1")>>, <<"name", Str("X")>>, <<"docType", Str("asset")>> >>,
      << <<"id", Str("a2")>>, <<"name", Str("Y")>>, <<"docType", Str("asset")>> >> }

AccessPayments ==
    { << <<"id", Str("g1")>>, <<"payeer_id", Str("c1")>>, <<"resume_id", Str("a1")>>,
         <<"docType", Str("paymentDetails")>> >>,
      << <<"id", Str("g2")>>, <<"payeer_id", Str("c1")>>, <<"resume_id", Str("a1")>>,
         <<"docType", Str("paymentDetails")>> >>,
      << <<"id", Str("g2")>>, <<"payeer_id", Str("c1")>>, <<"resume_id", Str("a2")>>,
         <<"docType", Str("paymentDetails")>> >> }

AccessUpdates == { << <<"expires_at", FormatX(6000)>> >> }

InitAccess ==
    /\ store = [k \in AccessKeys |-> NoBytes]
    /\ now = 0
    /\ tx = NoTx

AccessCreateAsset == \E new_asset \in AccessAssets : CreateAssetCall(new_asset)

AccessCreatePayment ==
    \E paymentDetails \in AccessPayments : createPaymentBlockCall(paymentDetails)

AccessUpdate ==
    \E id \in {"g1", "g2"}, updatedAsset \in AccessUpdates :
        updateAssetCall(id, updatedAsset)

AccessCheck ==
    \E clientId \in Clients, resumeId \in {"a1", "a2"} :
        checkAccessCall(clientId, resumeId)

NextAccess ==
    \/ Tick
    \/ AccessCreateAsset
    \/ AccessCreatePayment
    \/ AccessUpdate
    \/ AccessCheck

SpecAccess == InitAccess /\ [][NextAccess]_vars

(***************************************************************************)
(* Properties.  A step whose tx' names a transaction function is a call of *)
(* that function (Tick clears tx), so a property of a call is an action    *)
(* property on tx'; a property of a call that writes nothing is a state    *)
(* predicate on tx.                                                        *)
(***************************************************************************)
\* The record stored under a key that holds one.
Stored(k) == JSONparse(store[k])

\* C1: CreateAsset called with an id whose key holds a non-empty value throws
\* 'already exists' and leaves the store, that key's value included, as it was.
C1_CreateExistingFails ==
    [][(tx'.op = "CreateAsset" /\ Len(store[tx'.id]) > 0)
          => (tx'.err = AlreadyExists /\ store' = store)]_vars

\* A CreateAsset call has just failed on a key that holds a record.
C1_Witness ==
    /\ tx.op = "CreateAsset"
    /\ tx.err = AlreadyExists
    /\ Len(store[tx.id]) > 0

\* C2: a successful updateAsset stores a record with exactly the field names
\* of the record stored before; a field the update also has takes the update's
\* value, any other keeps its value, and fields only the update has are dropped.
C2_UpdateMerge ==
    [][(tx'.op = "updateAsset" /\ tx'.err = "")
          => LET old     == JSONparse(store[tx'.id])
                 new     == JSONparse(store'[tx'.id])
                 partial == tx'.arg[1]
             IN  /\ Len(store[tx'.id]) > 0
                 /\ Len(new) = Len(old)
                 /\ Fields(new) = Fields(old)
                 /\ \A f \in Fields(old) :
                        Get(new, f) = IF Has(partial, f) THEN Get(partial, f)
                                                        ELSE Get(old, f)]_vars

\* Stored {id:a1, name:Y} right after an update {name:Y, extra:Z} of it.
C2_Witness ==
    /\ tx.op = "updateAsset"
    /\ tx.err = ""
    /\ tx.arg = << << <<"name", Str("Y")>>, <<"extra", Str("Z")>> >> >>
    /\ store[tx.id] = << << <<"id", Str("a1")>>, <<"name", Str("Y")>> >> >>

\* A record that names the requester and the resource of a checkAccess call.
GrantFor(r, clientId, resumeId) ==
    /\ Has(r, "payeer_id") /\ Get(r, "payeer_id") = Str(clientId)
    /\ Has(r, "resume_id") /\ Get(r, "resume_id") = Str(resumeId)

\* A record as createPaymentBlock stamps it at time T.
StampedAt(r, T) ==
    /\ Has(r, "created_at") /\ Get(r, "created_at") = FormatDMY(T)
    /\ Has(r, "expires_at") /\ Get(r, "expires_at") = FormatX(T + 600)

\* C3: for a grant created by createPaymentBlock at time T, checkAccess for its
\* payeer_id and resume_id returns the protected resource (stored under
\* resume_id) at every time t with T <= t < T + 600 s, and returns the empty
\* result, with no error, at every t >= T + 600 s when no other grant names
\* that requester and resource.
C3_GrantWindow ==
    tx.op = "checkAccess" =>
        \A k \in Keys, T \in 0..MaxTime :
            (/\ Len(store[k]) > 0
             /\ GrantFor(Stored(k), tx.client, tx.id)
             /\ StampedAt(Stored(k), T)
             /\ T <= now
             /\ Len(store[tx.id]) > 0)
            => /\ now < T + 600
                    => /\ tx.err = ""
                       /\ tx.val = store[tx.id]
               /\ (/\ now >= T + 600
                   /\ \A j \in Keys \ {k} :
                        Len(store[j]) > 0 => ~GrantFor(Stored(j), tx.client, tx.id))
                    => /\ tx.err = ""
                       /\ tx.val = EmptyResult

\* The keys holding a record with payeer_id = clientId, resume_id = resumeId,
\* docType = 'paymentDetails' and expires_at > now.
LiveGrants(clientId, resumeId) ==
    {k \in Keys :
        /\ Len(store[k]) > 0
        /\ GrantFor(Stored(k), clientId, resumeId)
        /\ Has(Stored(k), "docType")
        /\ Get(Stored(k), "docType") = Str("paymentDetails")
        /\ Has(Stored(k), "expires_at")
        /\ Gt(Get(Stored(k), "expires_at"), FormatX(now))}

\* C4 as stated: checkAccess returns the record stored under resumeId when a
\* live grant exists, and the empty object, with no error, in every other case.
C4_AsStated ==
    tx.op = "checkAccess" =>
        IF LiveGrants(tx.client, tx.id) # {}
        THEN tx.err = "" /\ Len(store[tx.id]) > 0 /\ tx.val = store[tx.id]
        ELSE tx.err = "" /\ tx.val = EmptyResult

\* C4: checkAccess returns a non-empty result only if the store holds a live
\* grant for clientId and resumeId; with a live grant it returns the record
\* stored under resumeId when that key holds one and throws 'does not exist'
\* when it holds none; with no live grant it returns the empty object.
C4_CheckAccessResult ==
    tx.op = "checkAccess" =>
        IF LiveGrants(tx.client, tx.id) = {}
        THEN tx.err = "" /\ tx.val = EmptyResult
        ELSE IF Len(store[tx.id]) > 0
        THEN tx.err = "" /\ tx.val = store[tx.id]
        ELSE tx.err = DoesNotExist /\ tx.val = <<>>

\* checkAccess has just returned the resource of a live grant.
C4_Witness ==
    /\ tx.op = "checkAccess"
    /\ LiveGrants(tx.client, tx.id) # {}
    /\ tx.err = ""
    /\ tx.val = store[tx.id]
    /\ tx.val # EmptyResult

\* C5: createPaymentBlock persists under details.id a record with docType
\* 'paymentDetails', created_at the current time and expires_at the current
\* time plus ten minutes, whatever the details.
C5_PaymentStamped ==
    [][tx'.op = "createPaymentBlock"
          => LET r == JSONparse(store'[tx'.id])
             IN  /\ Len(store'[tx'.id]) > 0
                 /\ Has(r, "docType")
                 /\ Get(r, "docType") = Str("paymentDetails")
                 /\ StampedAt(r, now)]_vars

\* C6: ReadAsset and updateAsset on a key that holds no value throw 'does not
\* exist' and leave the store as it was; ReadAsset on a key that holds a value
\* returns exactly that value.
C6_MissingKey ==
    [][/\ (tx'.op \in {"ReadAsset", "updateAsset"} /\ Len(store[tx'.id]) = 0)
            => (tx'.err = DoesNotExist /\ store' = store)
       /\ (tx'.op = "ReadAsset" /\ Len(store[tx'.id]) > 0)
            => (tx'.err = "" /\ tx'.val = store[tx'.id] /\ store' = store)]_vars

\* ReadAsset has just failed on a key that holds no value.
C6_Witness ==
    /\ tx.op = "ReadAsset"
    /\ tx.err = DoesNotExist
    /\ Len(store[tx.id]) = 0

\* The docType of a stored record, if it has one.
DocTypeOf(bytes) ==
    IF Has(JSONparse(bytes), "docType")
    THEN <<Get(JSONparse(bytes), "docType")>>
    ELSE <<>>

\* C7: once a record is stored under a key, the docType of the record stored
\* under that key never changes.
C7_DocTypeImmutable ==
    [][\A k \in Keys :
          Len(store[k]) > 0
            => /\ Len(store'[k]) > 0
               /\ DocTypeOf(store'[k]) = DocTypeOf(store[k])]_vars

\* A stored asset record.
IsAsset(bytes) ==
    /\ Len(bytes) > 0
    /\ DocTypeOf(bytes) = <<Str("asset")>>

\* C8: a stored asset is never deleted, and its value is changed by
\* updateAsset alone.
C8_AssetFrame ==
    [][\A k \in Keys :
          IsAsset(store[k])
            => /\ Len(store'[k]) > 0
               /\ tx'.op # "updateAsset" => store'[k] = store[k]]_vars

\* C9: every stored record is stored under its own id.
C9_KeyedById ==
    \A k \in Keys :
        Len(store[k]) > 0
          => /\ Has(Stored(k), "id")
             /\ Get(Stored(k), "id") = Str(k)

\* C10: every stored paymentDetails record has expires_at later than
\* created_at, both read as points in time.
C10_ExpiresAfterCreated ==
    \A k \in Keys :
        (Len(store[k]) > 0 /\ DocTypeOf(store[k]) = <<Str("paymentDetails")>>)
          => /\ Has(Stored(k), "created_at")
             /\ Has(Stored(k), "expires_at")
             /\ Get(Stored(k), "expires_at").n > Get(Stored(k), "created_at").n

\* C13 as stated: after InitLedger(assets), ReadAsset(asset.id) returns, for
\* every asset of the input, a record with every input field at its input
\* value, docType 'asset' and created_at the clock time of the call.
C13_AsStated ==
    [][tx'.op = "InitLedger"
          => \A i \in DOMAIN tx'.arg, id \in Keys :
                LET asset == tx'.arg[i]
                    read  == ReadAssetOf(id)'
                IN  Get(asset, "id") = Str(id) =>
                    /\ read.err = ""
                    /\ \A f \in Fields(asset) :
                          /\ Has(JSONparse(read.val), f)
                          /\ Get(JSONparse(read.val), f) = Get(asset, f)
                    /\ Get(JSONparse(read.val), "docType") = Str("asset")
                    /\ Get(JSONparse(read.val), "created_at") = FormatDMY(now)]_vars

\* C13: after InitLedger(assets), for every asset of the input that no later
\* asset of the batch shares its id with, ReadAsset(asset.id) returns a record
\* with every input field other than docType and created_at at its input
\* value, docType 'asset' and created_at the clock time of the call.
C13_InitLedgerRead ==
    [][tx'.op = "InitLedger"
          => \A i \in DOMAIN tx'.arg, id \in Keys :
                LET asset == tx'.arg[i]
                    read  == ReadAssetOf(id)'
                IN  (/\ Get(asset, "id") = Str(id)
                     /\ \A j \in DOMAIN tx'.arg :
                           j > i => Get(tx'.arg[j], "id") # Get(asset, "id"))
                    => /\ read.err = ""
                       /\ \A f \in Fields(asset) \ {"docType", "created_at"} :
                             /\ Has(JSONparse(read.val), f)
                             /\ Get(JSONparse(read.val), f) = Get(asset, f)
                       /\ Fields(JSONparse(read.val))
                            = Fields(asset) \cup {"docType", "created_at"}
                       /\ Get(JSONparse(read.val), "docType") = Str("asset")
                       /\ Get(JSONparse(read.val), "created_at") = FormatDMY(now)]_vars

\* InitLedger([{id:a1, name:X}]) has just run after the clock advanced, and
\* a1 holds the stamped record.
C13_Witness ==
    /\ tx.op = "InitLedger"
    /\ tx.arg = << << <<"id", Str("a1")>>, <<"name", Str("X")>> >> >>
    /\ now > 0
    /\ ReadAssetOf("a1").val
         = << << <<"created_at", FormatDMY(now)>>, <<"docType", Str("asset")>>,
                 <<"id", Str("a1")>>, <<"name", Str("X")>> >> >>

\* C15: the text a successful CreateAsset or updateAsset returns is identical
\* to the bytes the call stored under the id.
C15_ReturnsStoredBytes ==
    (tx.op \in {"CreateAsset", "updateAsset"} /\ tx.err = "")
        => tx.val = store[tx.id]

\* C16: every element searchAsset, GetAllAssets and getProfileByWalletId
\* return is a record with docType 'asset', whatever the caller's criteria.
C16_OnlyAssetsReturned ==
    tx.op \in {"GetAllAssets", "searchAsset", "getProfileByWalletId"}
        => \A i \in DOMAIN tx.val :
              /\ tx.val[i].kind = "record"
              /\ Has(tx.val[i].record, "docType")
              /\ Get(tx.val[i].record, "docType") = Str("asset")

\* searchAsset, asked for docType 'paymentDetails' while the store holds such
\* a record, has just returned a record.
C16_Witness ==
    /\ tx.op = "searchAsset"
    /\ Has(tx.arg[1], "docType")
    /\ Get(tx.arg[1], "docType") = Str("paymentDetails")
    /\ Len(tx.val) > 0
    /\ \E k \in DOMAIN store :
          /\ Len(store[k]) > 0
          /\ DocTypeOf(store[k]) = <<Str("paymentDetails")>>

\* C19: GetAllAssets returns a record with the id of every asset a successful
\* CreateAsset or InitLedger call created before it.  (Under SpecAssets every
\* key that holds a value was written first by one of the two.)
C19_CreatedIsListed ==
    tx.op = "GetAllAssets"
        => \A k \in DOMAIN store :
              Len(store[k]) > 0
                => \E i \in DOMAIN tx.val :
                      /\ tx.val[i].kind = "record"
                      /\ Has(tx.val[i].record, "id")
                      /\ Get(tx.val[i].record, "id") = Str(k)

\* The operations that return the array of a query.
QueryOps == {"GetAllAssets", "searchAsset", "getProfileByWalletId",
             "QueryAssetsWithPagination"}

\* The array a query operation returned.
ResultsOf(t) == IF t.op = "QueryAssetsWithPagination" THEN t.val.results ELSE t.val

\* C11: a query operation over entries of which some are no parseable text
\* completes without error and returns one element per entry the iterator
\* yielded, in the iterator's order: the decoded record for an entry that
\* parses, the text of the entry for one that does not.
C11_MalformedTolerated ==
    tx.op \in QueryOps
        => /\ tx.err = ""
           /\ Len(ResultsOf(tx)) = Len(tx.yielded)
           /\ \A i \in DOMAIN tx.yielded :
                 ResultsOf(tx)[i]
                   = IF Parseable(tx.yielded[i])
                     THEN [kind |-> "record", record |-> tx.yielded[i][1], text |-> <<>>]
                     ELSE [kind |-> "string", record |-> <<>>,
                           text |-> toString(tx.yielded[i])]

\* GetAllAssets has just returned three elements, the second the text of an
\* entry that does not parse, the other two decoded records.
C11_Witness ==
    /\ tx.op = "GetAllAssets"
    /\ Len(tx.val) = 3
    /\ tx.val[1].kind = "record"
    /\ tx.val[2].kind = "string"
    /\ tx.val[2].text = NotJSON("U+FFFD")
    /\ tx.val[3].kind = "record"

\* ceil(n / p)
Ceil(n, p) == (n + p - 1) \div p

\* The keys of the pages of a chain, as a set.
PagedKeys(pages) ==
    UNION {{pages[i].keys[a] : a \in DOMAIN pages[i].keys} : i \in DOMAIN pages}

\* The results of the pages of a chain, as a set.
PagedResults(pages) ==
    UNION {{pages[i].results[a] : a \in DOMAIN pages[i].results} : i \in DOMAIN pages}

\* The arrays the unpaginated query returns, one for each order of the store.
Unpaginated(query) ==
    {Collect(Entries(order, query)) : order \in Orders(QueryKeys(query))}

\* C12: in a chain of QueryAssetsWithPagination calls with page size P over a
\* selector matching N entries, each call passing the bookmark the one before
\* returned, no entry is returned twice, the first ceil(N/P) pages are the
\* non-empty ones and together hold exactly the results of the unpaginated
\* query, and every page's RecordsCount is the length of its results.
C12_PaginationComplete ==
    (tx.op = "QueryAssetsWithPagination" /\ tx.pages # <<>>)
        => LET query == tx.arg[1]
               P     == tx.arg[2]
               N     == Cardinality(QueryKeys(query))
               pages == tx.pages
           IN  /\ tx.val.ResponseMetadata.RecordsCount = Len(tx.val.results)
               /\ \A i, j \in DOMAIN pages :
                    \A a \in DOMAIN pages[i].keys, b \in DOMAIN pages[j].keys :
                        (i # j \/ a # b) => pages[i].keys[a] # pages[j].keys[b]
               /\ PagedKeys(pages) \subseteq QueryKeys(query)
               /\ \A i \in DOMAIN pages :
                    /\ Len(pages[i].keys) <= P
                    /\ pages[i].keys # <<>> <=> i <= Ceil(N, P)
               /\ Len(pages) >= Ceil(N, P)
                    => /\ PagedKeys(pages) = QueryKeys(query)
                       /\ \A all \in Unpaginated(query) :
                             {all[i] : i \in DOMAIN all} = PagedResults(pages)

\* The second page of size two has just completed a chain over three
\* matching entries.
C12_Witness ==
    /\ tx.op = "QueryAssetsWithPagination"
    /\ tx.arg[2] = 2
    /\ Len(tx.pages) = 2
    /\ Cardinality(QueryKeys(tx.arg[1])) = 3
    /\ PagedKeys(tx.pages) = QueryKeys(tx.arg[1])
    /\ Len(tx.val.results) = 1

\* C17: every operation that obtains a query iterator closes it exactly once
\* before it completes.
C17_IteratorClosedOnce ==
    tx.op \in QueryOps \cup {"checkAccess"}
        => /\ tx.opened = 1
           /\ tx.closed = 1

\* The object o with field i taken out.
Without(o, i) == [j \in 1..(Len(o) - 1) |-> IF j < i THEN o[j] ELSE o[j + 1]]

\* The objects logically equal to o: the same fields with the same values in
\* any insertion order, every nested mapping in any insertion order too.
RECURSIVE Reorderings(_)
Reorderings(o) ==
    IF o = <<>>
    THEN {<<>>}
    ELSE UNION {
           { <<first>> \o rest :
                first \in IF o[i][2].tag = "obj"
                          THEN {<<o[i][1], Obj(n)>> : n \in Reorderings(o[i][2].o)}
                          ELSE {o[i]},
                rest \in Reorderings(Without(o, i)) }
           : i \in DOMAIN o }

\* C14: the bytes CreateAsset, InitLedger, updateAsset and createPaymentBlock
\* write for a record are the bytes they write for every record logically
\* equal to it, whatever the insertion order of its fields at any level.
C14_EncodingDeterministic ==
    /\ (tx.op = "CreateAsset" /\ tx.err = "")
         => \A r2 \in Reorderings(tx.arg[1]) : Encode(r2) = store[tx.id]
    /\ (tx.op = "updateAsset" /\ tx.err = "")
         => \A r2 \in Reorderings(JSONparse(tx.val)) : Encode(r2) = store[tx.id]
    /\ tx.op = "createPaymentBlock"
         => \A r2 \in Reorderings(tx.arg[1]) :
               Encode(StampPayment(r2)) = store[tx.id]
    /\ tx.op = "InitLedger"
         => \A i \in DOMAIN tx.arg, id \in Keys :
               (/\ Get(tx.arg[i], "id") = Str(id)
                /\ \A j \in DOMAIN tx.arg :
                      j > i => Get(tx.arg[j], "id") # Get(tx.arg[i], "id"))
               => \A r2 \in Reorderings(tx.arg[i]) :
                     Encode(StampAsset(r2)) = store[id]

\* updateAsset has just written a record whose nested mapping came from the
\* update in another key order than the one stored.
C14_Witness ==
    /\ tx.op = "updateAsset"
    /\ tx.err = ""
    /\ Has(JSONparse(tx.val), "extra")
    /\ Get(JSONparse(tx.val), "extra").tag = "obj"
    /\ Get(JSONparse(tx.val), "extra") # Get(Stored(tx.id), "extra")
    /\ Cardinality(Reorderings(JSONparse(tx.val))) > 1

\* C18: checkAccess grants access (returns something other than the empty
\* result) only while the store holds a grant for the requester and the
\* resource that was created less than ten minutes ago, whatever was done to
\* the grants since their creation.
C18_WindowFixed ==
    (tx.op = "checkAccess" /\ tx.err = "" /\ tx.val # EmptyResult)
        => \E k \in DOMAIN store :
              /\ Len(store[k]) > 0
              /\ GrantFor(Stored(k), tx.client, tx.id)
              /\ Has(Stored(k), "created_at")
              /\ now < AddMinutes(Get(Stored(k), "created_at").n, GrantMinutes)

\* C20: the outcome of checkAccess is the one every entry its query matches
\* gives when the iterator yields it first.
C20_OrderIndependent ==
    tx.op = "checkAccess"
        => \A first \in getQueryResult(AccessSelector(tx.client, tx.id)) :
              /\ tx.err = AccessResult(first).err
              /\ tx.val = AccessResult(first).val

\* checkAccess has just returned the resource while two live grants name the
\* requester and the resource.
C20_Witness ==
    /\ tx.op = "checkAccess"
    /\ Cardinality(getQueryResult(AccessSelector(tx.client, tx.id))) >= 2
    /\ tx.err = ""
    /\ tx.val = store[tx.id]
    /\ tx.val # EmptyResult
====
